---- MODULE Spec2Model ----
(***************************************************************************)
(* Model of the Search Tool plugin (search-tool-qt.cc): the hierarchical   *)
(* index SearchModel::m_database, its construction from the Library        *)
(* playlist, the recursive multi-term search and the two-pass ranking.     *)
(*                                                                         *)
(* Strings are sequences of ASCII codes, so that case folding, substring   *)
(* search and the number-aware comparison are computed, not assumed.       *)
(***************************************************************************)
EXTENDS Integers, Sequences, FiniteSets, TLC

\* ------------------------------------------------------------------------
\* Bounds of the model
\* ------------------------------------------------------------------------

\* most entries the Library playlist holds (general specification)
MaxEntries == 2

\* most entries the Library playlist holds (index specification)
MaxIndexEntries == 3

\* most search terms typed into the search entry (general specification)
MaxTerms == 2

\* the "max_results" settings tried besides the default: 1..MaxResultsTried
MaxResultsTried == 2

\* most terms typed beyond the width of the mask (overflow specification)
MaxExtraTerms == 1

\* most add requests begin_add hands to the playlist add thread in a run
\* (rescan specification)
MaxRequests == 2

\* ------------------------------------------------------------------------
\* enum class SearchField
\* ------------------------------------------------------------------------

Genre == 0

Artist == 1

Album == 2

Title == 3

\* SearchField::count
FieldCount == 4

Fields == 0 .. (FieldCount - 1)

\* ------------------------------------------------------------------------
\* Strings
\* ------------------------------------------------------------------------

\* A null String (String () / tuple.get_str of an unset field).  A String
\* converts to bool as "pointer is not null", so the empty string <<>> is a
\* non-null value distinct from NullStr.  Code 0 never occurs in a C string.
NullStr == <<0>>

IsUpper(c) == c >= 65 /\ c <= 90

IsDigit(c) == c >= 48 /\ c <= 57

ToLower(c) == IF IsUpper(c) THEN c + 32 ELSE c

\* str_tolower_utf8 on ASCII text
str_tolower_utf8(s) == [i \in 1 .. Len(s) |-> ToLower(s[i])]

\* strstr (haystack, needle) != nullptr
strstr(haystack, needle) ==
    \E i \in 0 .. (Len(haystack) - Len(needle)) :
        SubSeq(haystack, i + 1, i + Len(needle)) = needle

\* the byte at a 1-based position, 0 being the terminator
CharAt(s, i) == IF i <= Len(s) THEN s[i] ELSE 0

RECURSIVE DigitRunEnd(_, _)
\* last position of the run of digits that starts at position i
DigitRunEnd(s, i) ==
    IF IsDigit(CharAt(s, i + 1)) THEN DigitRunEnd(s, i + 1) ELSE i

RECURSIVE DigitRunValue(_, _, _, _)
\* x = 10 * x + (a - '0') over positions i..j
DigitRunValue(s, i, j, x) ==
    IF i > j THEN x ELSE DigitRunValue(s, i + 1, j, 10 * x + (s[i] - 48))

RECURSIVE StrCompareFrom(_, _, _, _)
\* libaudcore str_compare: like strcasecmp (ASCII letters compared without
\* case), but runs of digits are compared by numeric value
StrCompareFrom(s, t, i, j) ==
    LET a == CharAt(s, i)
        b == CharAt(t, j)
    IN  IF a = 0 /\ b = 0 THEN 0
        ELSE IF ~IsDigit(a) \/ ~IsDigit(b)
        THEN IF ToLower(a) > ToLower(b) THEN 1
             ELSE IF ToLower(a) < ToLower(b) THEN -1
             ELSE StrCompareFrom(s, t, i + 1, j + 1)
        ELSE LET ea == DigitRunEnd(s, i)
                 eb == DigitRunEnd(t, j)
                 x == DigitRunValue(s, i, ea, 0)
                 y == DigitRunValue(t, j, eb, 0)
             IN  IF x > y THEN 1
                 ELSE IF x < y THEN -1
                 ELSE StrCompareFrom(s, t, ea + 1, eb + 1)

str_compare(s, t) == StrCompareFrom(s, t, 1, 1)

\* ------------------------------------------------------------------------
\* struct Key, struct Item, SimpleHash<Key, Item> m_database
\* ------------------------------------------------------------------------

\* A node is named by its path of keys from the root map: the nested
\* SimpleHash<Key, Item> maps become one map from paths to items.  The
\* children map of the node at path p holds the nodes at the paths
\* Append(p, key); Item::parent is the path of the parent, NoParent (the
\* empty path) standing for nullptr.
NoParent == << >>

\* struct Key {field, name}
Key(f, name) == <<f, name>>

\* Item::Item (field, name, parent)
Item(f, name, parent) ==
    [field |-> f, name |-> name, folded |-> str_tolower_utf8(name),
     parent |-> parent, matches |-> << >>]

\* SimpleHash::clear () / a default-constructed SimpleHash
EmptyDatabase == << >>

\* item.children: the paths of the nodes in the child map of node p
Children(db, p) == {q \in DOMAIN db : db[q].parent = p}

\* item.children.n_items ()
NChildren(db, p) == Cardinality(Children(db, p))

\* ------------------------------------------------------------------------
\* The Library playlist: a sequence of tuples, entry e (0-based) being
\* playlist[e + 1]
\* ------------------------------------------------------------------------

\* a Tuple with its Genre, Artist, Album and Title strings (NullStr = unset)
MakeTuple(genre, artist, album, title) == <<genre, artist, album, title>>

\* tuple.get_str (field)
get_str(tuple, f) == tuple[f + 1]

\* ------------------------------------------------------------------------
\* SearchModel::create_database
\* ------------------------------------------------------------------------

\* AddMatch that appends the entry only to an item it has just created
AddMatchNewOnly(db, parent, f, name, e) ==
    LET path == Append(parent, Key(f, name))
    IN  IF path \in DOMAIN db
        THEN db
        ELSE db @@ (path :> [Item(f, name, parent) EXCEPT !.matches = <<e>>])

\* hash->lookup (key) / hash->add (key, Item (f, fields[f], parent)), then
\* item->matches.append (e); hash is the child map of parent
AddMatch(db, parent, f, name, e) ==
    LET path == Append(parent, Key(f, name))
        db1 == IF path \in DOMAIN db
               THEN db
               ELSE db @@ (path :> Item(f, name, parent))
    IN  [db1 EXCEPT ![path].matches = Append(@, e)]

\* if (fields[f]): the String is not null
FieldPresent(name) == name # NullStr

\* NextParent without the exception for genre
NextParentAlways(parent, f, name) == Append(parent, Key(f, name))

\* genre is outside the normal hierarchy: only a non-genre field moves the
\* cursor (parent, hash) to the item just visited
NextParent(parent, f, name) ==
    IF f # Genre THEN Append(parent, Key(f, name)) ELSE parent

RECURSIVE AddFields(_, _, _, _, _)
\* for (auto f : aud::range<SearchField> ()) over the fields from f on
AddFields(db, tuple, e, f, parent) ==
    IF f >= FieldCount THEN db
    ELSE IF FieldPresent(get_str(tuple, f))
    THEN AddFields(AddMatch(db, parent, f, get_str(tuple, f), e), tuple, e,
                   f + 1, NextParent(parent, f, get_str(tuple, f)))
    ELSE AddFields(db, tuple, e, f + 1, parent)

RECURSIVE AddEntries(_, _, _)
\* for (int e = 0; e < entries; e ++) over the entries from e on
AddEntries(db, entries, e) ==
    IF e >= Len(entries) THEN db
    ELSE AddEntries(AddFields(db, entries[e + 1], e, Genre, NoParent),
                    entries, e + 1)

\* the forest create_database leaves in m_database for a playlist
BuildDatabase(entries) == AddEntries(EmptyDatabase, entries, 0)

\* ------------------------------------------------------------------------
\* search_recurse
\* ------------------------------------------------------------------------

\* width of the int that holds the mask; a mask is the set of its set bits
MaskBits == 32

\* the loop variable bit after t steps of bit <<= 1, starting from 1: the
\* single bit t while it is inside the int, no bit once it is shifted out
Bit(t) == IF t < MaskBits THEN {t} ELSE {}

\* the values (1 << count) - 1 can take.  Up to 30 terms the result is
\* exact; for 31 terms INT_MIN - 1 wraps to INT_MAX; from 32 terms on the
\* shift count is not smaller than the width of int, which is undefined:
\* hardware that masks the count to 5 bits (x86, AArch64) computes
\* (1 << (count % 32)) - 1, hardware that shifts the bit out (ARM32,
\* PowerPC) computes 0 - 1 = -1 (all bits set)
InitialMasks(count) ==
    IF count < MaskBits
    THEN {0 .. (count - 1)}
    ELSE {0 .. ((count % MaskBits) - 1), 0 .. (MaskBits - 1)}

RECURSIVE TermLoopBreakAlways(_, _, _, _, _)
\* TermLoop with the early exit taken whether or not the item has children
TermLoopBreakAlways(db, q, terms, t, new_mask) ==
    IF t >= Len(terms) THEN new_mask
    ELSE IF new_mask \cap Bit(t) = {}
    THEN TermLoopBreakAlways(db, q, terms, t + 1, new_mask)
    ELSE IF strstr(db[q].folded, terms[t + 1])
    THEN TermLoopBreakAlways(db, q, terms, t + 1, new_mask \ Bit(t))
    ELSE new_mask

RECURSIVE TermLoop(_, _, _, _, _)
\* for (int t = 0, bit = 1; t < count; t ++, bit <<= 1) from term t on,
\* for the item at path q; gives new_mask
TermLoop(db, q, terms, t, new_mask) ==
    IF t >= Len(terms) THEN new_mask
    ELSE IF new_mask \cap Bit(t) = {}
    THEN TermLoop(db, q, terms, t + 1, new_mask)
    ELSE IF strstr(db[q].folded, terms[t + 1])
    THEN TermLoop(db, q, terms, t + 1, new_mask \ Bit(t))
    ELSE IF NChildren(db, q) = 0
    THEN new_mask
    ELSE TermLoop(db, q, terms, t + 1, new_mask)

\* Appended without the test of the number of children
AppendedAnyChildren(db, q, new_mask) ==
    IF new_mask = {} THEN {q} ELSE {}

\* if (! new_mask && item.children.n_items () != 1) results.append (& item)
Appended(db, q, new_mask) ==
    IF new_mask = {} /\ NChildren(db, q) # 1 THEN {q} ELSE {}

RECURSIVE search_recurse_unthreaded(_, _, _, _)
\* search_recurse passing mask, not new_mask, down to the children
search_recurse_unthreaded(db, parent, mask, terms) ==
    UNION {LET new_mask == TermLoop(db, q, terms, 0, mask)
           IN  Appended(db, q, new_mask)
                   \cup search_recurse_unthreaded(db, q, mask, terms)
           : q \in Children(db, parent)}

RECURSIVE search_recurse(_, _, _, _)
\* the items appended to results for the map of the children of parent
\* (the root map for NoParent); the order of domain.iterate is the hash
\* order, so the appended items are a set here and are ordered by the sorts
search_recurse(db, parent, mask, terms) ==
    UNION {LET new_mask == TermLoop(db, q, terms, 0, mask)
           IN  Appended(db, q, new_mask)
                   \cup search_recurse(db, q, new_mask, terms)
           : q \in Children(db, parent)}

\* ------------------------------------------------------------------------
\* item_compare, item_compare_pass1, Index::sort
\* ------------------------------------------------------------------------

RECURSIVE item_compare_parent_first(_, _, _)
\* item_compare returning 1, not -1, when only b has a parent
item_compare_parent_first(db, a, b) ==
    IF db[a].field < db[b].field THEN -1
    ELSE IF db[a].field > db[b].field THEN 1
    ELSE LET val == str_compare(db[a].name, db[b].name)
         IN  IF val # 0 THEN val
             ELSE IF db[a].parent # NoParent
             THEN IF db[b].parent # NoParent
                  THEN item_compare_parent_first(db, db[a].parent,
                                                 db[b].parent)
                  ELSE 1
             ELSE IF db[b].parent # NoParent THEN 1 ELSE 0

RECURSIVE item_compare(_, _, _)
item_compare(db, a, b) ==
    IF db[a].field < db[b].field THEN -1
    ELSE IF db[a].field > db[b].field THEN 1
    ELSE LET val == str_compare(db[a].name, db[b].name)
         IN  IF val # 0 THEN val
             ELSE IF db[a].parent # NoParent
             THEN IF db[b].parent # NoParent
                  THEN item_compare(db, db[a].parent, db[b].parent)
                  ELSE 1
             ELSE IF db[b].parent # NoParent THEN -1 ELSE 0

\* item_compare_pass1 ranking the items with fewer songs first
item_compare_pass1_ascending(db, a, b) ==
    IF Len(db[a].matches) < Len(db[b].matches) THEN -1
    ELSE IF Len(db[a].matches) > Len(db[b].matches) THEN 1
    ELSE item_compare(db, a, b)

item_compare_pass1(db, a, b) ==
    IF Len(db[a].matches) > Len(db[b].matches) THEN -1
    ELSE IF Len(db[a].matches) < Len(db[b].matches) THEN 1
    ELSE item_compare(db, a, b)

\* the comparison a sort uses: pass 1 or the final pass
SortCompare(db, pass1, a, b) ==
    IF pass1 THEN item_compare_pass1(db, a, b) ELSE item_compare(db, a, b)

RECURSIVE SortOutcomes(_, _, _)
\* every sequence Index::sort can leave for the items of set S: the items
\* in an order in which no item compares greater than a later one.  Items
\* that compare equal may end in either order, the order they are appended
\* in being the hash order
SortOutcomes(db, S, pass1) ==
    IF S = {} THEN {<< >>}
    ELSE UNION {{<<m>> \o rest : rest \in SortOutcomes(db, S \ {m}, pass1)}
                : m \in {x \in S :
                           \A y \in S : SortCompare(db, pass1, x, y) <= 0}}

\* the set of the elements of a sequence
Range(seq) == {seq[i] : i \in 1 .. Len(seq)}

\* ------------------------------------------------------------------------
\* SearchModel::do_search
\* ------------------------------------------------------------------------

\* if (m_items.len () > max_results) m_items.remove (max_results, -1)
Truncate(items, max) ==
    IF Len(items) > max THEN SubSeq(items, 1, max) ELSE items

\* m_hidden_items = m_items.len () - max_results, or 0 as cleared before
Hidden(items, max) ==
    IF Len(items) > max THEN Len(items) - max ELSE 0

\* the pairs (m_items, m_hidden_items) do_search can leave
do_search(db, valid, terms, max) ==
    IF ~valid
    THEN {[items |-> << >>, hidden |-> 0]}
    ELSE UNION {UNION {{[items |-> final, hidden |-> Hidden(ranked, max)]
                        : final \in SortOutcomes(db,
                                        Range(Truncate(ranked, max)), FALSE)}
                       : ranked \in SortOutcomes(db,
                             search_recurse(db, NoParent, mask, terms), TRUE)}
                : mask \in InitialMasks(Len(terms))}

\* ------------------------------------------------------------------------
\* Inputs: the tuples the playlist can hold and the terms that can be typed
\* ------------------------------------------------------------------------

\* "Ab"
sAb == <<65, 98>>

\* "ab"
sab == <<97, 98>>

\* "Xy"
sXy == <<88, 121>>

\* "a"
sa == <<97>>

\* "c"
sc == <<99>>

\* "y"
sy == <<121>>

\* "" (a non-null empty string)
sEmpty == << >>

\* the tuples an added entry can carry: two titles of one album, the same
\* artist written in another case with the empty string for a genre, and
\* a title of an album with neither genre nor artist
TuplePool ==
    {MakeTuple(sXy, sAb, sXy, sc),
     MakeTuple(NullStr, sAb, sXy, sy),
     MakeTuple(sEmpty, sab, sXy, sc),
     MakeTuple(NullStr, NullStr, sXy, sc)}

\* the same, and the first title again under another genre
IndexTuplePool == TuplePool \cup {MakeTuple(sc, sAb, sXy, sc)}

\* the words of a search text: lowercase and not empty, as
\* str_list_to_index (str_tolower_utf8 (text), " ") yields them
TermPool == {sa, sy}

RECURSIVE SeqsUpTo(_, _)
\* the sequences over S of length at most n
SeqsUpTo(S, n) ==
    IF n = 0 THEN {<< >>}
    ELSE LET shorter == SeqsUpTo(S, n - 1)
         IN  shorter \cup {Append(q, x) : q \in shorter, x \in S}

TermLists == SeqsUpTo(TermPool, MaxTerms)

\* ------------------------------------------------------------------------
\* The scenario of three records: Bach / Suites / No.1 and No.2, and
\* Beethoven / Sonatas / Moonlight
\* ------------------------------------------------------------------------

\* "Bach"
sBach == <<66, 97, 99, 104>>

\* "Suites"
sSuites == <<83, 117, 105, 116, 101, 115>>

\* "No.1"
sNo1 == <<78, 111, 46, 49>>

\* "No.2"
sNo2 == <<78, 111, 46, 50>>

\* "Beethoven"
sBeethoven == <<66, 101, 101, 116, 104, 111, 118, 101, 110>>

\* "Sonatas"
sSonatas == <<83, 111, 110, 97, 116, 97, 115>>

\* "Moonlight"
sMoonlight == <<77, 111, 111, 110, 108, 105, 103, 104, 116>>

\* "bach"
sbach == <<98, 97, 99, 104>>

\* "no"
sno == <<110, 111>>

ScenarioEntries ==
    <<MakeTuple(NullStr, sBach, sSuites, sNo1),
      MakeTuple(NullStr, sBach, sSuites, sNo2),
      MakeTuple(NullStr, sBeethoven, sSonatas, sMoonlight)>>

ScenarioTermLists == SeqsUpTo({sbach, sno}, MaxTerms)

\* a term list of n terms, all "a" but the k-th, which is "c"
TermFill(n, k) == [i \in 1 .. n |-> IF i = k THEN sc ELSE sa]

\* term lists as long as the mask is wide, and longer; the term "c" is the
\* second one, the first one beyond the mask, or missing
LongTermLists ==
    {TermFill(n, k) : n \in MaskBits .. (MaskBits + MaxExtraTerms),
                      k \in {0, 2, MaskBits + 1}}

\* "max_results" default of SearchToolQt::defaults
DefaultMaxResults == 20

MaxResultsChoices == (1 .. MaxResultsTried) \cup {DefaultMaxResults}

\* ------------------------------------------------------------------------
\* State
\* ------------------------------------------------------------------------

VARIABLES
    playlist,          \* the entries of s_playlist, a sequence of tuples
    s_search_terms,    \* Index<String> s_search_terms
    max_results,       \* aud_get_int (CFG_ID, "max_results")
    s_search_pending,  \* a search is queued on s_search_timer
    m_database,        \* SearchModel::m_database
    m_database_valid,  \* SearchModel::m_database_valid
    m_items,           \* SearchModel::m_items (paths of items)
    m_hidden_items,    \* SearchModel::m_hidden_items
    built_from,        \* history: the entries create_database last read
    stale_items,       \* history: m_items holds pointers to destroyed nodes
    dropped_results,   \* history: the handler that ran last called
                       \* destroy_database, whose m_items.clear () found
                       \* results in the list
    last_read,         \* history: what the handler that ran last read from
                       \* the result list, NoRead unless it was do_add or
                       \* mimeData
    widget,            \* the widget exists: the hooks are associated
    library_exists,    \* s_playlist.exists ()
    update_pending,    \* s_playlist.update_pending ()
    s_adding,          \* bool s_adding
    s_adding_lock,     \* the thread that holds s_adding_lock, or "free"
    s_added_table,     \* SimpleHash<String, bool> s_added_table
    ui_pc,             \* position of the UI thread
    add_pc,            \* position of the playlist add thread
    add_tasks,         \* the queued add requests: for each, whether the
                       \* playlist it adds to still exists
    add_current,       \* the request the add thread works on
    add_file,          \* the file the add thread passes to filter_cb
    add_results,       \* the results of the finished requests, which
                       \* add_finish has yet to insert
    requests           \* add requests queued so far

vars == <<playlist, s_search_terms, max_results, s_search_pending,
          m_database, m_database_valid, m_items, m_hidden_items, built_from,
          stale_items, dropped_results, last_read,
          widget, library_exists, update_pending, s_adding, s_adding_lock,
          s_added_table, ui_pc, add_pc, add_tasks, add_current, add_file,
          add_results, requests>>

\* the state of the playlist add thread and of what it hands over
adder_vars == <<add_pc, add_tasks, add_current, add_file, add_results,
                requests>>

\* the state of the rescan of the Library
add_vars == <<widget, library_exists, update_pending, s_adding,
              s_adding_lock, s_added_table, ui_pc, adder_vars>>

\* s_added_table after clear ()
EmptyTable == [f \in {} |-> FALSE]

\* the add thread works on no request
NoTask == [busy |-> FALSE, live |-> FALSE, left |-> {}, files |-> << >>]

\* the add thread has no file at hand
NoFile == << >>

\* the Library exists and is empty, the widget is shown, no rescan runs
InitAdd ==
    /\ widget = TRUE
    /\ library_exists = TRUE
    /\ update_pending = FALSE
    /\ s_adding = FALSE
    /\ s_adding_lock = "free"
    /\ s_added_table = EmptyTable
    /\ ui_pc = "idle"
    /\ add_pc = "idle"
    /\ add_tasks = << >>
    /\ add_current = NoTask
    /\ add_file = NoFile
    /\ add_results = << >>
    /\ requests = 0

\* the handler that ran last did not read the result list
NoRead == [by |-> "none", searched |-> FALSE, items |-> << >>]

model_vars == <<m_database, m_database_valid, m_items, m_hidden_items,
                built_from, stale_items>>

\* a handler that leaves the index and the result list alone
ModelQuiet == UNCHANGED model_vars /\ dropped_results' = FALSE

Init ==
    /\ playlist = << >>
    /\ s_search_terms = << >>
    /\ max_results = DefaultMaxResults
    /\ s_search_pending = FALSE
    /\ m_database = EmptyDatabase
    /\ m_database_valid = FALSE
    /\ m_items = << >>
    /\ m_hidden_items = 0
    /\ built_from = << >>
    /\ stale_items = FALSE
    /\ dropped_results = FALSE
    /\ last_read = NoRead
    /\ InitAdd

\* ------------------------------------------------------------------------
\* Operations
\* ------------------------------------------------------------------------

\* the playlist add thread inserts one more entry into the Library, which
\* holds fewer than limit entries
entry_added(tuple, limit) ==
    /\ Len(playlist) < limit
    /\ playlist' = Append(playlist, tuple)
    /\ UNCHANGED <<s_search_terms, max_results, s_search_pending>>
    /\ ModelQuiet
    /\ last_read' = NoRead
    /\ UNCHANGED add_vars

\* QLineEdit::textEdited: new search terms, then trigger_search
text_edited(terms) ==
    /\ s_search_terms' = terms
    /\ s_search_pending' = TRUE
    /\ UNCHANGED <<playlist, max_results>>
    /\ ModelQuiet
    /\ last_read' = NoRead
    /\ UNCHANGED add_vars

\* the "max_results" preference is changed: its callback is trigger_search
max_results_changed(max) ==
    /\ max_results' = max
    /\ s_search_pending' = TRUE
    /\ UNCHANGED <<playlist, s_search_terms>>
    /\ ModelQuiet
    /\ last_read' = NoRead
    /\ UNCHANGED add_vars

\* the part of search_timeout that changes state: do_search on the given
\* database, then s_search_pending = false
SearchTimeoutOn(db, valid) ==
    /\ \E r \in do_search(db, valid, s_search_terms, max_results) :
           /\ m_items' = r.items
           /\ m_hidden_items' = r.hidden
    /\ s_search_pending' = FALSE

\* search_timeout run by s_search_timer
search_timeout ==
    /\ s_search_pending
    /\ SearchTimeoutOn(m_database, m_database_valid)
    /\ UNCHANGED <<playlist, s_search_terms, max_results>>
    /\ UNCHANGED <<m_database, m_database_valid, built_from>>
    /\ UNCHANGED stale_items /\ dropped_results' = FALSE
    /\ last_read' = NoRead
    /\ UNCHANGED add_vars

\* m_database.clear () destroys every node of the forest: the pointers the
\* result list holds at that moment are left dangling
StaleAfterClear(items) == items # << >>

\* destroy_database that leaves m_items and m_hidden_items as they are
destroy_database_keeps_items ==
    /\ UNCHANGED <<m_items, m_hidden_items>>
    /\ m_database' = EmptyDatabase
    /\ m_database_valid' = FALSE
    /\ built_from' = << >>
    /\ stale_items' = StaleAfterClear(m_items)
    /\ dropped_results' = FALSE

\* SearchModel::destroy_database: m_items.clear () comes first, so that
\* m_database.clear () finds the result list empty
destroy_database ==
    /\ m_items' = << >>
    /\ m_hidden_items' = 0
    /\ m_database' = EmptyDatabase
    /\ m_database_valid' = FALSE
    /\ built_from' = << >>
    /\ stale_items' = StaleAfterClear(<< >>)
    /\ dropped_results' = (m_items # << >>)

\* create_database that rebuilds the forest without destroy_database, and
\* no search after it: the result list is left as it is
create_database_in_place ==
    /\ m_database' = BuildDatabase(playlist)
    /\ m_database_valid' = TRUE
    /\ built_from' = playlist
    /\ stale_items' = StaleAfterClear(m_items)
    /\ dropped_results' = FALSE
    /\ UNCHANGED <<m_items, m_hidden_items, s_search_pending>>

\* SearchModel::create_database, which begins with destroy_database,
\* followed by search_timeout
create_database_and_search ==
    /\ m_database' = BuildDatabase(playlist)
    /\ m_database_valid' = TRUE
    /\ built_from' = playlist
    /\ stale_items' = StaleAfterClear(<< >>)
    /\ dropped_results' = (m_items # << >>)
    /\ SearchTimeoutOn(BuildDatabase(playlist), TRUE)

\* update_database; ready is the result of check_playlist (true, true):
\* the Library playlist exists and is neither being added to nor scanned
update_database ==
    /\ \E ready \in BOOLEAN :
           IF ready
           THEN create_database_and_search
           ELSE destroy_database /\ UNCHANGED s_search_pending
    /\ UNCHANGED <<playlist, s_search_terms, max_results>>
    /\ last_read' = NoRead
    /\ UNCHANGED add_vars

\* the head of do_add and of mimeData without "if (s_search_pending)
\* search_timeout ()": the result list is read as it is
ReadResultsUnsearched(by) ==
    /\ last_read' = [by |-> by, searched |-> FALSE, items |-> m_items]
    /\ UNCHANGED <<playlist, s_search_terms, max_results, s_search_pending>>
    /\ ModelQuiet
    /\ UNCHANGED add_vars

\* the head of do_add and of mimeData: a pending search is run first, then
\* the result list is read (num_items, item_at, the matches of the items)
ReadResults(by) ==
    /\ IF s_search_pending
       THEN SearchTimeoutOn(m_database, m_database_valid)
       ELSE UNCHANGED <<m_items, m_hidden_items, s_search_pending>>
    /\ last_read' = [by |-> by, searched |-> s_search_pending,
                     items |-> m_items']
    /\ UNCHANGED <<playlist, s_search_terms, max_results>>
    /\ UNCHANGED <<m_database, m_database_valid, built_from>>
    /\ UNCHANGED stale_items /\ dropped_results' = FALSE
    /\ UNCHANGED add_vars

\* do_add (action_play, action_create_playlist, action_add_to_playlist):
\* the entries of the selected results go to another playlist
do_add == ReadResults("do_add")

\* SearchModel::mimeData: the entries of the dragged results
mimeData == ReadResults("mimeData")

Next ==
    \/ \E tuple \in TuplePool : entry_added(tuple, MaxEntries)
    \/ \E terms \in TermLists : text_edited(terms)
    \/ \E max \in MaxResultsChoices : max_results_changed(max)
    \/ search_timeout
    \/ update_database

Spec == Init /\ [][Next]_vars

\* the Library already holds the three records of the scenario
InitScenario ==
    /\ playlist = ScenarioEntries
    /\ s_search_terms = << >>
    /\ max_results = DefaultMaxResults
    /\ s_search_pending = FALSE
    /\ m_database = EmptyDatabase
    /\ m_database_valid = FALSE
    /\ m_items = << >>
    /\ m_hidden_items = 0
    /\ built_from = << >>
    /\ stale_items = FALSE
    /\ dropped_results = FALSE
    /\ last_read = NoRead
    /\ InitAdd

NextScenario ==
    \/ \E terms \in ScenarioTermLists : text_edited(terms)
    \/ \E max \in MaxResultsChoices : max_results_changed(max)
    \/ search_timeout
    \/ update_database

SpecScenario == InitScenario /\ [][NextScenario]_vars

\* the scenario's Library, with results played, added and dragged
NextRead ==
    \/ \E terms \in ScenarioTermLists : text_edited(terms)
    \/ \E max \in MaxResultsChoices : max_results_changed(max)
    \/ search_timeout
    \/ update_database
    \/ do_add
    \/ mimeData

SpecRead == InitScenario /\ [][NextRead]_vars

\* the Library grows and the index is rebuilt or cleared, while the search
\* text stays empty and the maximum stays at its default
NextIndex ==
    \/ \E tuple \in IndexTuplePool : entry_added(tuple, MaxIndexEntries)
    \/ update_database

SpecIndex == Init /\ [][NextIndex]_vars

\* the search text holds as many words as the mask has bits, or more
NextOverflow ==
    \/ \E tuple \in TuplePool : entry_added(tuple, MaxEntries)
    \/ \E terms \in LongTermLists : text_edited(terms)
    \/ \E max \in MaxResultsChoices : max_results_changed(max)
    \/ search_timeout
    \/ update_database

SpecOverflow == Init /\ [][NextOverflow]_vars

\* ------------------------------------------------------------------------
\* Rescan of the Library: begin_add, filter_cb, add_complete_cb
\* ------------------------------------------------------------------------

\* the files under the Library folder in the order of their paths, each
\* written as the tuple read from it
LibraryFolder ==
    <<MakeTuple(sXy, sAb, sXy, sc), MakeTuple(NullStr, sAb, sXy, sy)>>

AddFiles == {LibraryFolder[i] : i \in 1 .. Len(LibraryFolder)}

\* the rank of a file in Playlist::Path order
FilePath(f) ==
    CHOOSE i \in 1 .. Len(LibraryFolder) : LibraryFolder[i] = f

RECURSIVE Dedupe(_, _)
\* begin_add: the entries whose file name is met again are selected, then
\* remove_selected
Dedupe(entries, seen) ==
    IF entries = << >> THEN << >>
    ELSE IF Head(entries) \in seen THEN Dedupe(Tail(entries), seen)
         ELSE <<Head(entries)>>
                  \o Dedupe(Tail(entries), seen \cup {Head(entries)})

RECURSIVE Keep(_, _)
\* the entries left by remove_selected when those outside kept are selected
Keep(entries, kept) ==
    IF entries = << >> THEN << >>
    ELSE IF Head(entries) \in kept
         THEN <<Head(entries)>> \o Keep(Tail(entries), kept)
         ELSE Keep(Tail(entries), kept)

RECURSIVE InsertByPath(_, _)
InsertByPath(f, sorted) ==
    IF sorted = << >> THEN <<f>>
    ELSE IF FilePath(f) < FilePath(Head(sorted)) THEN <<f>> \o sorted
         ELSE <<Head(sorted)>> \o InsertByPath(f, Tail(sorted))

RECURSIVE SortByPath(_)
\* s_playlist.sort_entries (Playlist::Path)
SortByPath(entries) ==
    IF entries = << >> THEN << >>
    ELSE InsertByPath(Head(entries), SortByPath(Tail(entries)))

RECURSIVE LiveFiles(_)
\* the files of the results whose playlist still exists
LiveFiles(results) ==
    IF results = << >> THEN << >>
    ELSE (IF Head(results).live THEN Head(results).files ELSE << >>)
             \o LiveFiles(Tail(results))

\* s_playlist.add_in_progress () with the given queue, request at work and
\* results
AddInProgress(tasks, current, results) ==
    \/ \E i \in 1 .. Len(tasks) : tasks[i]
    \/ current.busy /\ current.live
    \/ \E i \in 1 .. Len(results) : results[i].live

\* check_playlist (require_added, require_scanned); scanning is
\* s_playlist.scan_in_progress ()
check_playlist(exists, adding, require_added, scanning, require_scanned) ==
    /\ exists
    /\ ~(require_added /\ adding)
    /\ ~(require_scanned /\ scanning)

\* update_database when check_playlist (true, true) gives ready
UpdateDatabaseOn(ready) ==
    IF ready
    THEN create_database_and_search
    ELSE destroy_database /\ UNCHANGED s_search_pending

\* set_adding, first part: s_adding_lock.take ()
set_adding_take ==
    /\ ui_pc \in {"begin_lock", "complete_lock", "cleanup_lock"}
    /\ s_adding_lock = "free"
    /\ s_adding_lock' = "ui"
    /\ ui_pc' = CASE ui_pc = "begin_lock" -> "begin_set"
                  [] ui_pc = "complete_lock" -> "complete_set"
                  [] OTHER -> "cleanup_set"
    /\ last_read' = NoRead
    /\ UNCHANGED <<playlist, s_search_terms, max_results, s_search_pending>>
    /\ ModelQuiet
    /\ UNCHANGED <<widget, library_exists, update_pending, s_adding,
                   s_added_table, adder_vars>>

\* set_adding, second part: s_adding = adding, and the lock is released
set_adding_store ==
    /\ ui_pc \in {"begin_set", "complete_set", "cleanup_set"}
    /\ s_adding' = (ui_pc = "begin_set")
    /\ s_adding_lock' = "free"
    /\ ui_pc' = CASE ui_pc = "begin_set" -> "begin_insert"
                  [] ui_pc = "complete_set" -> "complete_table"
                  [] OTHER -> "cleanup_table"
    /\ last_read' = NoRead
    /\ UNCHANGED <<playlist, s_search_terms, max_results, s_search_pending>>
    /\ ModelQuiet
    /\ UNCHANGED <<widget, library_exists, update_pending, s_added_table,
                   adder_vars>>

\* what the steps of the UI thread leave alone besides what they name
UiQuiet ==
    /\ last_read' = NoRead
    /\ UNCHANGED <<s_search_terms, max_results>>
    /\ UNCHANGED <<s_adding, s_adding_lock>>

\* check_playlist (true, true) of update_database
Ready(tasks, scanning) ==
    check_playlist(library_exists,
                   AddInProgress(tasks, add_current, add_results), TRUE,
                   scanning, TRUE)

\* the refresh button, the folder watcher: begin_add passes
\* "if (s_adding) return" and check_playlist, creating the Library if it
\* does not exist
begin_add_enter ==
    /\ ui_pc = "idle"
    /\ widget
    /\ ~s_adding
    /\ requests < MaxRequests
    /\ library_exists' = TRUE
    /\ ui_pc' = "begin_table"
    /\ UiQuiet
    /\ UNCHANGED <<playlist, s_search_pending, widget, update_pending,
                   s_added_table, adder_vars>>
    /\ ModelQuiet

\* the refresh button, the folder watcher: begin_add returns at
\* "if (s_adding) return", then update_database
refresh_skipped ==
    /\ ui_pc = "idle"
    /\ widget
    /\ s_adding
    /\ \E scanning \in BOOLEAN :
           UpdateDatabaseOn(Ready(add_tasks, scanning))
    /\ UiQuiet
    /\ UNCHANGED <<playlist, widget, library_exists, update_pending,
                   s_added_table, ui_pc, adder_vars>>

\* begin_add: s_added_table is cleared and filled from the entries, the
\* entries whose file is already in it are removed
begin_add_table ==
    /\ ui_pc = "begin_table"
    /\ s_added_table' = [f \in Range(playlist) |-> FALSE]
    /\ playlist' = Dedupe(playlist, {})
    /\ update_pending' = (update_pending \/ playlist' # playlist)
    /\ ui_pc' = "begin_lock"
    /\ UiQuiet
    /\ UNCHANGED <<s_search_pending, widget, library_exists, adder_vars>>
    /\ ModelQuiet

\* begin_add: insert_filtered queues the request; then the update_database
\* of the caller
begin_add_insert ==
    /\ ui_pc = "begin_insert"
    /\ add_tasks' = Append(add_tasks, TRUE)
    /\ requests' = requests + 1
    /\ \E scanning \in BOOLEAN :
           UpdateDatabaseOn(Ready(Append(add_tasks, TRUE), scanning))
    /\ ui_pc' = "idle"
    /\ UiQuiet
    /\ UNCHANGED <<playlist, widget, library_exists, update_pending,
                   s_added_table>>
    /\ UNCHANGED <<add_pc, add_current, add_file, add_results>>

\* get_qt_widget: search_init, with or without "rescan_on_startup"
get_qt_widget ==
    /\ ui_pc = "idle"
    /\ ~widget
    /\ widget' = TRUE
    /\ \E rescan \in BOOLEAN :
           IF rescan /\ ~s_adding
           THEN /\ requests < MaxRequests
                /\ library_exists' = TRUE
                /\ ui_pc' = "begin_table"
                /\ UNCHANGED s_search_pending
                /\ ModelQuiet
           ELSE /\ \E scanning \in BOOLEAN :
                       UpdateDatabaseOn(Ready(add_tasks, scanning))
                /\ UNCHANGED <<library_exists, ui_pc>>
    /\ UiQuiet
    /\ UNCHANGED <<playlist, update_pending, s_added_table, adder_vars>>

\* the tail of add_complete_cb: update_database if the index is not valid
\* and no update of the Library is pending
CompleteTail(run, pending) ==
    IF run /\ ~m_database_valid /\ ~pending
    THEN \E scanning \in BOOLEAN :
             UpdateDatabaseOn(Ready(add_tasks, scanning))
    ELSE ModelQuiet /\ UNCHANGED s_search_pending

\* add_finish of the adder inserts the results into their playlist, then
\* calls the hook "playlist add complete": add_complete_cb up to
\* "if (s_adding)"
add_complete_cb ==
    /\ ui_pc = "idle"
    /\ add_results # << >>
    /\ LET inserted == LiveFiles(add_results)
           pending == update_pending \/ inserted # << >>
           ok == /\ widget
                 /\ check_playlist(library_exists,
                        AddInProgress(add_tasks, add_current, << >>), TRUE,
                        FALSE, FALSE)
       IN  /\ playlist' = playlist \o inserted
           /\ add_results' = << >>
           /\ update_pending' = pending
           /\ IF ok /\ s_adding
              THEN /\ ui_pc' = "complete_lock"
                   /\ ModelQuiet
                   /\ UNCHANGED s_search_pending
              ELSE /\ ui_pc' = "idle"
                   /\ CompleteTail(ok, pending)
    /\ UiQuiet
    /\ UNCHANGED <<widget, library_exists, s_added_table>>
    /\ UNCHANGED <<add_pc, add_tasks, add_current, add_file, requests>>

\* add_complete_cb after set_adding (false): the entries whose file was
\* not found again are removed, unless none was found; the table is
\* cleared and the entries sorted by path; then the tail
add_complete_table ==
    /\ ui_pc = "complete_table"
    /\ LET found == {f \in DOMAIN s_added_table : s_added_table[f]}
           n_selected == Cardinality({i \in 1 .. Len(playlist) :
                                         playlist[i] \notin found})
           left == IF n_selected < Len(playlist)
                   THEN Keep(playlist, found)
                   ELSE playlist
       IN  /\ playlist' = SortByPath(left)
           /\ s_added_table' = EmptyTable
           /\ \E queued \in BOOLEAN :
                  /\ update_pending' =
                         (update_pending \/ queued
                              \/ SortByPath(left) # playlist)
                  /\ CompleteTail(TRUE, update_pending')
    /\ ui_pc' = "idle"
    /\ UiQuiet
    /\ UNCHANGED <<widget, library_exists, adder_vars>>

\* search_cleanup up to set_adding (false)
search_cleanup_enter ==
    /\ ui_pc = "idle"
    /\ widget
    /\ widget' = FALSE
    /\ s_search_pending' = FALSE
    /\ s_search_terms' = << >>
    /\ ui_pc' = "cleanup_lock"
    /\ last_read' = NoRead
    /\ UNCHANGED <<playlist, max_results, library_exists, update_pending,
                   s_adding, s_adding_lock, s_added_table, adder_vars>>
    /\ ModelQuiet

\* search_cleanup after set_adding (false): s_added_table.clear () and
\* destroy_database
search_cleanup_table ==
    /\ ui_pc = "cleanup_table"
    /\ s_added_table' = EmptyTable
    /\ destroy_database
    /\ ui_pc' = "idle"
    /\ UiQuiet
    /\ UNCHANGED <<playlist, s_search_pending, widget, library_exists,
                   update_pending, adder_vars>>

\* playlist_update_cb, called for an update of any playlist
playlist_update_cb ==
    /\ ui_pc = "idle"
    /\ widget
    /\ update_pending' = FALSE
    /\ \E scanning \in BOOLEAN :
           LET ready == Ready(add_tasks, scanning)
           IN  IF ~m_database_valid \/ ~ready \/ update_pending
               THEN UpdateDatabaseOn(ready)
               ELSE ModelQuiet /\ UNCHANGED s_search_pending
    /\ UiQuiet
    /\ UNCHANGED <<playlist, widget, library_exists, s_added_table, ui_pc,
                   adder_vars>>

\* scan_complete_cb
scan_complete_cb ==
    /\ ui_pc = "idle"
    /\ widget
    /\ Ready(add_tasks, FALSE)
    /\ ~m_database_valid
    /\ ~update_pending
    /\ UpdateDatabaseOn(TRUE)
    /\ UiQuiet
    /\ UNCHANGED <<playlist, widget, library_exists, update_pending,
                   s_added_table, ui_pc, adder_vars>>

\* the user deletes the Library playlist: the requests and results that
\* add to it have no playlist any more
delete_library ==
    /\ ui_pc = "idle"
    /\ library_exists
    /\ library_exists' = FALSE
    /\ playlist' = << >>
    /\ update_pending' = FALSE
    /\ add_tasks' = [i \in 1 .. Len(add_tasks) |-> FALSE]
    /\ add_current' = [add_current EXCEPT !.live = FALSE, !.files = << >>]
    /\ add_results' = [i \in 1 .. Len(add_results) |->
                          [live |-> FALSE, files |-> << >>]]
    /\ UiQuiet
    /\ UNCHANGED <<s_search_pending, widget, s_added_table, ui_pc, add_pc,
                   add_file, requests>>
    /\ ModelQuiet

\* what the steps of the playlist add thread leave alone
AdderQuiet ==
    /\ last_read' = NoRead
    /\ UNCHANGED <<playlist, s_search_terms, max_results, s_search_pending>>
    /\ ModelQuiet
    /\ UNCHANGED <<widget, library_exists, update_pending, s_adding, ui_pc,
                   requests>>

\* the add thread releases s_adding_lock if it holds it
ReleasedByAdder == IF s_adding_lock = "add" THEN "free" ELSE s_adding_lock

\* the add thread takes the next request and reads the folder, which holds
\* any of the files
add_start_task ==
    /\ add_pc = "idle"
    /\ add_tasks # << >>
    /\ \E found \in SUBSET AddFiles :
           add_current' = [busy |-> TRUE, live |-> Head(add_tasks),
                           left |-> found, files |-> << >>]
    /\ add_tasks' = Tail(add_tasks)
    /\ add_pc' = "scan"
    /\ AdderQuiet
    /\ UNCHANGED <<s_adding_lock, s_added_table, add_file, add_results>>

\* the add thread comes to a file of the folder and calls filter_cb
add_find_file ==
    /\ add_pc = "scan"
    /\ \E f \in add_current.left :
           /\ add_file' = f
           /\ add_current' = [add_current EXCEPT !.left = @ \ {f}]
    /\ add_pc' = "filter_take"
    /\ AdderQuiet
    /\ UNCHANGED <<s_adding_lock, s_added_table, add_tasks, add_results>>

\* filter_cb that goes on without s_adding_lock
filter_cb_take_unlocked ==
    /\ add_pc = "filter_take"
    /\ add_pc' = "filter_check"
    /\ AdderQuiet
    /\ UNCHANGED <<s_adding_lock, s_added_table, add_tasks, add_current,
                   add_file, add_results>>

\* filter_cb: s_adding_lock.take ()
filter_cb_take ==
    /\ add_pc = "filter_take"
    /\ s_adding_lock = "free"
    /\ s_adding_lock' = "add"
    /\ add_pc' = "filter_check"
    /\ AdderQuiet
    /\ UNCHANGED <<s_added_table, add_tasks, add_current, add_file,
                   add_results>>

\* filter_cb: "if (s_adding)"; if not, it returns false and the lock is
\* released
filter_cb_check ==
    /\ add_pc = "filter_check"
    /\ IF s_adding
       THEN /\ add_pc' = "filter_table"
            /\ UNCHANGED <<s_adding_lock, add_file>>
       ELSE /\ add_pc' = "scan"
            /\ s_adding_lock' = ReleasedByAdder
            /\ add_file' = NoFile
    /\ AdderQuiet
    /\ UNCHANGED <<s_added_table, add_tasks, add_current, add_results>>

\* filter_cb: the lookup in s_added_table; a file not in it is added to it
\* and accepted, a file in it is marked as found again and rejected; the
\* lock is released
filter_cb_table ==
    /\ add_pc = "filter_table"
    /\ LET added == add_file \in DOMAIN s_added_table
       IN  /\ s_added_table' =
                  [f \in DOMAIN s_added_table \cup {add_file} |->
                      IF f = add_file THEN TRUE ELSE s_added_table[f]]
           /\ add_current' =
                  IF ~added /\ add_current.live
                  THEN [add_current EXCEPT !.files = Append(@, add_file)]
                  ELSE add_current
    /\ s_adding_lock' = ReleasedByAdder
    /\ add_file' = NoFile
    /\ add_pc' = "scan"
    /\ AdderQuiet
    /\ UNCHANGED <<add_tasks, add_results>>

\* the add thread has gone through the folder: the result of the request
\* is handed to add_finish
add_finish_task ==
    /\ add_pc = "scan"
    /\ add_current.left = {}
    /\ add_results' = Append(add_results, [live |-> add_current.live,
                                           files |-> add_current.files])
    /\ add_current' = NoTask
    /\ add_pc' = "idle"
    /\ AdderQuiet
    /\ UNCHANGED <<s_adding_lock, s_added_table, add_tasks, add_file>>

\* the UI thread and the playlist add thread, interleaved
NextAdd ==
    \/ begin_add_enter
    \/ refresh_skipped
    \/ begin_add_table
    \/ set_adding_take
    \/ set_adding_store
    \/ begin_add_insert
    \/ get_qt_widget
    \/ add_complete_cb
    \/ add_complete_table
    \/ search_cleanup_enter
    \/ search_cleanup_table
    \/ playlist_update_cb
    \/ scan_complete_cb
    \/ delete_library
    \/ add_start_task
    \/ add_find_file
    \/ filter_cb_take
    \/ filter_cb_check
    \/ filter_cb_table
    \/ add_finish_task

SpecAdd == Init /\ [][NextAdd]_vars

\* ------------------------------------------------------------------------
\* Properties
\* ------------------------------------------------------------------------

\* m_items holds the result of do_search for the current terms, maximum
\* and index
SearchDone == m_database_valid /\ ~s_search_pending

RECURSIVE PathToRoot(_, _)
\* a node and its ancestors, following Item::parent
PathToRoot(db, q) ==
    {q} \cup (IF db[q].parent = NoParent THEN {}
              ELSE PathToRoot(db, db[q].parent))

\* every term is a substring of the folded name of q or of an ancestor
AllTermsOnPath(db, q, terms) ==
    \A i \in 1 .. Len(terms) :
        \E p \in PathToRoot(db, q) : strstr(db[p].folded, terms[i])

\* the nodes a search for terms is to give, before ranking
Expected(db, terms) ==
    {q \in DOMAIN db : NChildren(db, q) # 1 /\ AllTermsOnPath(db, q, terms)}

\* C1: for every built index and term list, the nodes search_recurse
\* appends are exactly the nodes that do not have exactly one child and
\* for which every term is a substring of the folded name of the node or
\* of one of its ancestors (terms need not match the same node; the early
\* break does not matter); and the untruncated result of a finished search
\* is exactly that set of nodes
C1_MaskPropagation ==
    /\ m_database_valid =>
           \A mask \in InitialMasks(Len(s_search_terms)) :
               search_recurse(m_database, NoParent, mask, s_search_terms)
                   = Expected(m_database, s_search_terms)
    /\ (SearchDone /\ m_hidden_items = 0) =>
           Range(m_items) = Expected(m_database, s_search_terms)

\* C1 witness: a finished search for two terms returned a node whose own
\* name holds neither term (each was found on a different ancestor), while
\* a childless node took the early break on the first term although its
\* name holds the second
C1_Witness ==
    /\ SearchDone
    /\ Len(s_search_terms) = 2
    /\ \E q \in Range(m_items) :
           \A i \in 1 .. 2 : ~strstr(m_database[q].folded, s_search_terms[i])
    /\ \E n \in DOMAIN m_database :
           /\ m_database[n].parent = NoParent
           /\ NChildren(m_database, n) = 0
           /\ ~strstr(m_database[n].folded, s_search_terms[1])
           /\ strstr(m_database[n].folded, s_search_terms[2])
           /\ n \notin Range(m_items)

\* the Artist nodes with exactly one child, that child being an Album, that
\* are the only node of the index whose name holds the single search term
LoneArtists ==
    {a \in DOMAIN m_database :
        /\ m_database[a].field = Artist
        /\ NChildren(m_database, a) = 1
        /\ \A b \in Children(m_database, a) : m_database[b].field = Album
        /\ Len(s_search_terms) = 1
        /\ \A p \in DOMAIN m_database :
               strstr(m_database[p].folded, s_search_terms[1]) <=> p = a}

\* C2 as claimed: a search whose term matches only the name of an Artist
\* with exactly one Album returns that Album, and an Artist with exactly
\* one child is never in the results
C2_Original ==
    /\ (SearchDone /\ m_hidden_items = 0) =>
           \A a \in LoneArtists : \A b \in Children(m_database, a) :
               b \in Range(m_items)
    /\ \A q \in Range(m_items) :
           ~(m_database[q].field = Artist /\ NChildren(m_database, q) = 1)

\* C2 amended: the search returns the Artist's single Album exactly when
\* the Album does not itself have exactly one child (an Album with exactly
\* one Title is suppressed like the Artist, and the Title is returned); no
\* node with exactly one child is ever in the results
C2_SingleChildSuppression ==
    /\ (SearchDone /\ m_hidden_items = 0) =>
           \A a \in LoneArtists : \A b \in Children(m_database, a) :
               /\ b \in Range(m_items) <=> NChildren(m_database, b) # 1
               /\ NChildren(m_database, b) = 1 =>
                      Children(m_database, b) \subseteq Range(m_items)
    /\ \A q \in Range(m_items) : NChildren(m_database, q) # 1

\* C2 witness: such a search returned the single Album (which has two
\* Titles) and not the Artist
C2_Witness ==
    /\ SearchDone
    /\ m_hidden_items = 0
    /\ \E a \in LoneArtists : \E b \in Children(m_database, a) :
           /\ NChildren(m_database, b) = 2
           /\ b \in Range(m_items)
           /\ a \notin Range(m_items)

BachNode == <<Key(Artist, sBach)>>

SuitesNode == Append(BachNode, Key(Album, sSuites))

No1Node == Append(SuitesNode, Key(Title, sNo1))

No2Node == Append(SuitesNode, Key(Title, sNo2))

\* the index was built from the three records and the search for "bach"
\* has run with a maximum of at least 5 results
ScenarioSearched ==
    /\ SearchDone
    /\ built_from = ScenarioEntries
    /\ s_search_terms = <<sbach>>
    /\ max_results >= 5

\* the match count of every node of a set
MatchCounts(S) == {<<q, Len(m_database[q].matches)>> : q \in S}

\* C3 as claimed: Search(["bach"]) yields exactly the Artist node "Bach"
\* and the Album node "Suites", each with a match count of 2
C3_Original ==
    ScenarioSearched =>
        /\ Len(m_items) = 2
        /\ MatchCounts(Range(m_items)) = {<<BachNode, 2>>, <<SuitesNode, 2>>}

\* C3 amended: Search(["bach"]) yields exactly the Album "Suites" with a
\* match count of 2 and the Titles "No.1" and "No.2" with a match count of
\* 1 each, in this order and with nothing hidden; the Artist "Bach" has
\* exactly one child and is not in the result
C3_Scenario ==
    ScenarioSearched =>
        /\ m_items = <<SuitesNode, No1Node, No2Node>>
        /\ MatchCounts(Range(m_items)) =
               {<<SuitesNode, 2>>, <<No1Node, 1>>, <<No2Node, 1>>}
        /\ m_hidden_items = 0
        /\ NChildren(m_database, BachNode) = 1
        /\ BachNode \notin Range(m_items)

\* C3 witness: the search for "bach" has run on the scenario's index
C3_Witness == ScenarioSearched /\ Len(m_items) = 3

\* the items search_recurse appends for the current terms and index
Candidates ==
    UNION {search_recurse(m_database, NoParent, mask, s_search_terms)
           : mask \in InitialMasks(Len(s_search_terms))}

Min(a, b) == IF a < b THEN a ELSE b

\* the number of songs of a node
MatchCount(q) == Len(m_database[q].matches)

\* C4: after a search that produced N candidates under a positive maximum
\* M, the result list holds min(N, M) distinct candidates, the hidden count
\* is N - min(N, M), and every kept node has at least the match count of
\* every dropped node, a kept node with the same match count as a dropped
\* one not coming after it in canonical order
C4_Truncation ==
    SearchDone =>
        LET kept == Range(m_items)
            dropped == Candidates \ kept
            N == Cardinality(Candidates)
        IN  /\ max_results > 0
            /\ kept \subseteq Candidates
            /\ Cardinality(kept) = Len(m_items)
            /\ Len(m_items) = Min(N, max_results)
            /\ m_hidden_items = N - Min(N, max_results)
            /\ \A k \in kept : \A d \in dropped :
                   /\ MatchCount(k) >= MatchCount(d)
                   /\ MatchCount(k) = MatchCount(d) =>
                          item_compare(m_database, k, d) <= 0

\* C4 witness: a search with 4 candidates under a maximum of 2 kept 2 and
\* hid 2; one kept node has more songs than a dropped one and another has
\* as many songs as a dropped one
C4_Witness ==
    /\ SearchDone
    /\ max_results = 2
    /\ Cardinality(Candidates) = 4
    /\ Len(m_items) = 2
    /\ m_hidden_items = 2
    /\ \E k \in Range(m_items) : \E d \in Candidates \ Range(m_items) :
           MatchCount(k) > MatchCount(d)
    /\ \E k \in Range(m_items) : \E d \in Candidates \ Range(m_items) :
           MatchCount(k) = MatchCount(d)

\* item_compare on the nodes of the current index
Cmp(a, b) == item_compare(m_database, a, b)

\* item_compare (a, b) and item_compare (b, a) have opposite signs
CmpAntisymmetric ==
    \A a \in DOMAIN m_database : \A b \in DOMAIN m_database :
        Cmp(a, b) = 0 - Cmp(b, a)

CmpTransitive ==
    \A a \in DOMAIN m_database : \A b \in DOMAIN m_database :
        \A c \in DOMAIN m_database :
            (Cmp(a, b) <= 0 /\ Cmp(b, c) <= 0) => Cmp(a, c) <= 0

\* two ancestry chains of the same length with, at every level, the same
\* field and names that str_compare takes for equal (the same up to the
\* case of ASCII letters and the numeric value of runs of digits)
SameChainUpToCase(a, b) ==
    /\ Len(a) = Len(b)
    /\ \A i \in 1 .. Len(a) :
           /\ a[i][1] = b[i][1]
           /\ str_compare(a[i][2], b[i][2]) = 0

\* C5 as claimed: item_compare is a total order on the nodes of a built
\* index: non-zero for any two distinct nodes, antisymmetric, transitive
C5_Original ==
    m_database_valid =>
        /\ \A a \in DOMAIN m_database : \A b \in DOMAIN m_database :
               a # b => Cmp(a, b) # 0
        /\ CmpAntisymmetric
        /\ CmpTransitive

\* C5 amended: item_compare is a total preorder on the nodes of a built
\* index (antisymmetric in sign and transitive); it returns zero for two
\* nodes exactly when their ancestry chains agree level by level in field
\* and in name up to ASCII letter case and the value of digit runs, which
\* distinct nodes can do
C5_TotalPreorder ==
    m_database_valid =>
        /\ \A a \in DOMAIN m_database : \A b \in DOMAIN m_database :
               Cmp(a, b) = 0 <=> SameChainUpToCase(a, b)
        /\ CmpAntisymmetric
        /\ CmpTransitive

\* C5 witness: two distinct same-field, same-named nodes that differ only
\* by ancestry (their artists are "Ab" and "ab"), for which item_compare
\* returns zero
C5_Witness ==
    /\ m_database_valid
    /\ \E a \in DOMAIN m_database : \E b \in DOMAIN m_database :
           /\ a # b
           /\ m_database[a].field = m_database[b].field
           /\ m_database[a].name = m_database[b].name
           /\ Cmp(a, b) = 0

\* C6 as claimed: a search given more than 32 terms gives the candidates of
\* a search in which each of its first 32 terms constrains the result and
\* the later terms count as satisfied
C6_Original ==
    (SearchDone /\ m_hidden_items = 0 /\ Len(s_search_terms) > MaskBits) =>
        Range(m_items) =
            Expected(m_database, SubSeq(s_search_terms, 1, MaskBits))

\* the entries with every field that holds the empty string made absent
EmptyAsAbsent(entries) ==
    [e \in 1 .. Len(entries) |->
        [f \in 1 .. FieldCount |->
            IF entries[e][f] = sEmpty THEN NullStr ELSE entries[e][f]]]

\* C7 as claimed: Build treats a field holding the empty string like an
\* absent field: the index is the one built from the same entries with
\* those fields absent, and no node has an empty name
C7_Original ==
    m_database_valid =>
        /\ m_database = BuildDatabase(EmptyAsAbsent(built_from))
        /\ \A q \in DOMAIN m_database : m_database[q].name # sEmpty

RECURSIVE Depth(_, _)
\* the number of nodes from q up to its top-level ancestor
Depth(db, q) ==
    IF db[q].parent = NoParent THEN 1 ELSE 1 + Depth(db, db[q].parent)

\* the fields of a tuple that hold a string
PresentFields(tuple) == {f \in Fields : FieldPresent(get_str(tuple, f))}

\* the smallest element of a non-empty set of numbers
Least(S) == CHOOSE x \in S : \A y \in S : x <= y

\* the top-level node for field f of a tuple
TopNode(tuple, f) == <<Key(f, get_str(tuple, f))>>

\* C8: in a built index every Genre node is top-level, without parent and
\* without children; a record's first present field after Genre is a
\* top-level node; the parent of a nested node is a node of the index with
\* a strictly smaller field that is not Genre; no node is deeper than 3; a
\* record with Album and Title and no Artist has its Album at top level
\* and its Title nested under that Album
C8_GenreTopLevel ==
    m_database_valid =>
        /\ \A q \in DOMAIN m_database :
               /\ m_database[q].field = Genre =>
                      /\ m_database[q].parent = NoParent
                      /\ NChildren(m_database, q) = 0
               /\ m_database[q].parent # NoParent =>
                      /\ m_database[q].parent \in DOMAIN m_database
                      /\ m_database[m_database[q].parent].field
                             < m_database[q].field
                      /\ m_database[m_database[q].parent].field # Genre
               /\ Depth(m_database, q) <= 3
        /\ \A e \in 1 .. Len(built_from) :
               LET tuple == built_from[e]
                   rest == PresentFields(tuple) \ {Genre}
               IN  /\ Genre \in PresentFields(tuple) =>
                          /\ TopNode(tuple, Genre) \in DOMAIN m_database
                          /\ m_database[TopNode(tuple, Genre)].parent
                                 = NoParent
                   /\ rest # {} =>
                          /\ TopNode(tuple, Least(rest)) \in DOMAIN m_database
                          /\ m_database[TopNode(tuple, Least(rest))].parent
                                 = NoParent
                          /\ (e - 1) \in Range(
                                 m_database[TopNode(tuple, Least(rest))].matches)
                   /\ (rest = {Album, Title}) =>
                          LET album == TopNode(tuple, Album)
                              title == Append(album,
                                           Key(Title, get_str(tuple, Title)))
                          IN  /\ title \in DOMAIN m_database
                              /\ m_database[title].parent = album

\* C8 witness: the index was built from a record with an Album and a
\* Title and neither Genre nor Artist, and from a record with a Genre: the
\* Album is a top-level node beside a Genre node, the Title is nested
\* under it
C8_Witness ==
    /\ m_database_valid
    /\ \E q \in DOMAIN m_database : m_database[q].field = Genre
    /\ \E e \in 1 .. Len(built_from) :
           /\ PresentFields(built_from[e]) = {Album, Title}
           /\ TopNode(built_from[e], Album) \in DOMAIN m_database
           /\ NChildren(m_database, TopNode(built_from[e], Album)) = 1

RECURSIVE ChainFrom(_, _)
\* the keys of the present fields of a tuple from field f on, Genre
\* excluded: the path create_database walks for the tuple
ChainFrom(tuple, f) ==
    IF f >= FieldCount THEN << >>
    ELSE IF f # Genre /\ FieldPresent(get_str(tuple, f))
    THEN <<Key(f, get_str(tuple, f))>> \o ChainFrom(tuple, f + 1)
    ELSE ChainFrom(tuple, f + 1)

\* the record's chain of present fields reaches node q and equals its
\* ancestry chain up to and including q
ChainMatches(tuple, q) ==
    IF q[1][1] = Genre
    THEN Genre \in PresentFields(tuple) /\ q = TopNode(tuple, Genre)
    ELSE LET chain == ChainFrom(tuple, Genre)
         IN  Len(chain) >= Len(q) /\ SubSeq(chain, 1, Len(q)) = q

\* the matches of every node of the index increase strictly (so hold no
\* duplicate) and are exactly the indices of the records whose chain of
\* present fields up to and including the node equals the node's ancestry
\* chain
MatchesAreChainMatches ==
    \A q \in DOMAIN m_database :
        LET m == m_database[q].matches
        IN  /\ \A i \in 1 .. (Len(m) - 1) : m[i] < m[i + 1]
            /\ Range(m) = {e \in 0 .. (Len(built_from) - 1) :
                              ChainMatches(built_from[e + 1], q)}

\* every record the index was built from has all four fields
AllFieldsPresent ==
    \A e \in 1 .. Len(built_from) : PresentFields(built_from[e]) = Fields

\* C9 as claimed: the matches are the chain matches, and when every record
\* has all four fields the match count of a Title node is the number of
\* records that share the four-field tuple of a record of the node
C9_Original ==
    m_database_valid =>
        /\ MatchesAreChainMatches
        /\ AllFieldsPresent =>
               \A q \in DOMAIN m_database :
                   m_database[q].field = Title =>
                       \A e \in Range(m_database[q].matches) :
                           Len(m_database[q].matches) =
                               Cardinality({d \in 1 .. Len(built_from) :
                                   built_from[d] = built_from[e + 1]})

\* C9 amended: the matches are the chain matches, and when every record
\* has all four fields the match count of a Title node is the number of
\* records with the same Artist, Album and Title, whatever their Genre
C9_MatchConservation ==
    m_database_valid =>
        /\ MatchesAreChainMatches
        /\ AllFieldsPresent =>
               \A q \in DOMAIN m_database :
                   m_database[q].field = Title =>
                       Len(m_database[q].matches) =
                           Cardinality({e \in 1 .. Len(built_from) :
                               /\ get_str(built_from[e], Artist) = q[1][2]
                               /\ get_str(built_from[e], Album) = q[2][2]
                               /\ get_str(built_from[e], Title) = q[3][2]})

\* C9 witness: every record has all four fields and a Title node counts
\* two records, which differ in their Genre
C9_Witness ==
    /\ m_database_valid
    /\ AllFieldsPresent
    /\ \E q \in DOMAIN m_database :
           /\ m_database[q].field = Title
           /\ m_database[q].matches = <<0, 1>>
           /\ get_str(built_from[1], Genre) # get_str(built_from[2], Genre)

\* C10: while database_valid is false the forest is empty, the result list
\* is empty and the hidden count is 0, and do_search gives an empty result
\* with hidden count 0 whatever the terms and the maximum; while
\* database_valid is true the forest is the one create_database builds
\* from all the entries it read, every entry being recorded under each of
\* its present fields
C10_ValidOrAbsent ==
    /\ ~m_database_valid =>
           /\ m_database = EmptyDatabase
           /\ m_items = << >>
           /\ m_hidden_items = 0
           /\ \A terms \in TermLists : \A max \in MaxResultsChoices :
                  do_search(m_database, m_database_valid, terms, max)
                      = {[items |-> << >>, hidden |-> 0]}
    /\ m_database_valid =>
           /\ m_database = BuildDatabase(built_from)
           /\ \A e \in 1 .. Len(built_from) :
                  \A f \in PresentFields(built_from[e]) :
                      \E q \in DOMAIN m_database :
                          /\ m_database[q].field = f
                          /\ m_database[q].name = get_str(built_from[e], f)
                          /\ (e - 1) \in Range(m_database[q].matches)

\* C10 witness: the index was cleared while the Library holds entries, and
\* a search for a term ran on the cleared index
C10_Witness ==
    /\ ~m_database_valid
    /\ Len(playlist) > 0
    /\ Len(s_search_terms) > 0
    /\ ~s_search_pending
    /\ m_items = << >>

\* ------------------------------------------------------------------------
\* C12
\* ------------------------------------------------------------------------

\* C12: after any sequence of create_database, destroy_database, do_search
\* and update_database every entry of m_items is a node of the current
\* forest m_database and none points to a node that was destroyed; the
\* result list is empty whenever the forest is the cleared one
C12_ItemsInCurrentForest ==
    /\ ~stale_items
    /\ Range(m_items) \subseteq DOMAIN m_database
    /\ (m_database = EmptyDatabase) => (m_items = << >>)

\* C12 witness: the forest was rebuilt while the result list held entries,
\* and the list holds entries of the rebuilt forest, one of them a node
\* that the last entry of the Library is recorded under
C12_Witness ==
    /\ dropped_results
    /\ m_database_valid
    /\ Len(built_from) > 1
    /\ \E i \in 1 .. Len(m_items) :
           (Len(built_from) - 1) \in Range(m_database[m_items[i]].matches)

\* ------------------------------------------------------------------------
\* C13
\* ------------------------------------------------------------------------

\* the result list is one that do_search gives for the current terms,
\* maximum and index
ResultsCurrent ==
    [items |-> m_items, hidden |-> m_hidden_items]
        \in do_search(m_database, m_database_valid, s_search_terms,
                      max_results)

\* C13: whenever do_add or mimeData reads the result list, no search is
\* pending and the list it reads is the result list, which is what
\* do_search gives for the current search terms, the current maximum and
\* the current index
C13_ReadsFreshResults ==
    (last_read # NoRead) =>
        /\ ~s_search_pending
        /\ last_read.items = m_items
        /\ ResultsCurrent

\* C13 witness: mimeData found a search for "bach" pending, ran it, and
\* read its three results
C13_Witness ==
    /\ last_read.by = "mimeData"
    /\ last_read.searched
    /\ last_read.items = m_items
    /\ Len(m_items) = 3
    /\ s_search_terms = <<sbach>>

\* ------------------------------------------------------------------------
\* C11
\* ------------------------------------------------------------------------

\* the UI thread is reading or writing s_added_table
UiAccessesTable ==
    ui_pc \in {"begin_table", "complete_table", "cleanup_table"}

\* the playlist add thread is reading or writing s_added_table
AdderAccessesTable == add_pc = "filter_table"

\* the UI thread is inside set_adding and holds s_adding_lock
UiSetsAdding ==
    /\ ui_pc \in {"begin_set", "complete_set", "cleanup_set"}
    /\ s_adding_lock = "ui"

\* C11: under every interleaving of the UI thread (begin_add,
\* add_complete_cb, search_cleanup) and the playlist add thread (filter_cb)
\* the two threads never access s_added_table at once; the add thread
\* accesses it only while s_adding is true and the UI thread only while
\* s_adding is false; and s_adding changes only in a step of the UI thread
\* that holds s_adding_lock
C11_TableProtocol ==
    /\ [](/\ ~(UiAccessesTable /\ AdderAccessesTable)
          /\ AdderAccessesTable => s_adding
          /\ UiAccessesTable => ~s_adding)
    /\ [][s_adding' # s_adding => UiSetsAdding]_vars

\* C11 witness: filter_cb is at the table, holding the lock, while
\* search_cleanup waits for the lock in set_adding (false)
C11_Witness ==
    /\ AdderAccessesTable
    /\ s_adding_lock = "add"
    /\ ui_pc = "cleanup_lock"
    /\ s_adding

\* ------------------------------------------------------------------------
\* C14
\* ------------------------------------------------------------------------

\* s_adding is true while the hooks are associated, and the adder has
\* nothing left that would call "playlist add complete"
AddingStuck ==
    /\ s_adding
    /\ widget
    /\ ui_pc = "idle"
    /\ add_pc = "idle"
    /\ add_tasks = << >>
    /\ add_results = << >>

\* C14: once begin_add has set s_adding, the next delivery of "playlist
\* add complete" to add_complete_cb goes on to set_adding (false), whatever
\* happened to the Library playlist in between; and s_adding is never left
\* true with no delivery to come, so that begin_add is not skipped for good
C14_Original ==
    /\ [][(add_complete_cb /\ widget /\ s_adding)
              => ui_pc' = "complete_lock"]_vars
    /\ [](~AddingStuck)

====
